---- MODULE Spec2Model ----
(***************************************************************************)
(* Model of the neuroscope model-to-graph converters.                      *)
(*                                                                         *)
(*   py_*   src/src/python/{main,pytorch_converter,models}.py              *)
(*   svc_*  src/python_service/{main,pytorch_converter,models}.py          *)
(*   lib_*  src/src/lib/bridge/pytorch_service.py                          *)
(*                                                                         *)
(* Python dicts are TLA+ records whose DOMAIN is the dict's key set, so    *)
(* "k in d" is k \in DOMAIN d and d[k] on a missing key is a KeyError.     *)
(* Floats are exact rationals [num, den] in lowest terms; a standard       *)
(* deviation is carried as its square (the population variance).           *)
(***************************************************************************)
EXTENDS Integers, Sequences, FiniteSets, TLC

\* ------------------------------------------------------------------------
\* Bounds
\* ------------------------------------------------------------------------
MaxLayers == 3        \* longest descriptor layer list
MaxModules == 4       \* most module positions in a live model tree

\* ------------------------------------------------------------------------
\* Numbers
\* ------------------------------------------------------------------------
Abs(x) == IF x < 0 THEN -x ELSE x

RECURSIVE Gcd(_, _)
Gcd(a, b) == IF b = 0 THEN a ELSE Gcd(b, a % b)

\* a float value, as the exact rational n/d (d > 0) in lowest terms
Rat(n, d) ==
    LET g == Gcd(Abs(n), d)
    IN  [num |-> n \div g, den |-> d \div g]

RECURSIVE SeqSum(_)
SeqSum(s) == IF s = <<>> THEN 0 ELSE Head(s) + SeqSum(Tail(s))

RECURSIVE SeqMax(_)
SeqMax(s) == IF Len(s) = 1 THEN s[1]
             ELSE LET m == SeqMax(Tail(s)) IN IF s[1] > m THEN s[1] ELSE m

RECURSIVE SeqMin(_)
SeqMin(s) == IF Len(s) = 1 THEN s[1]
             ELSE LET m == SeqMin(Tail(s)) IN IF s[1] < m THEN s[1] ELSE m

AbsSeq(s) == [k \in 1..Len(s) |-> Abs(s[k])]
SqSeq(s) == [k \in 1..Len(s) |-> s[k] * s[k]]

\* ------------------------------------------------------------------------
\* Weight statistics (tensors are [shape, data], data the flattened elements)
\* ------------------------------------------------------------------------
\* mutant: the mean of the signed elements
np_mean_signed(t) == Rat(SeqSum(t.data), Len(t.data))

np_mean_abs(t) == Rat(SeqSum(AbsSeq(t.data)), Len(t.data))
np_max(t) == Rat(SeqMax(t.data), 1)
np_min(t) == Rat(SeqMin(t.data), 1)
np_max_abs(t) == Rat(SeqMax(AbsSeq(t.data)), 1)
np_min_abs(t) == Rat(SeqMin(AbsSeq(t.data)), 1)
\* np.std: population standard deviation; the value carried is std^2
np_std(t) ==
    LET n == Len(t.data)
        s == SeqSum(t.data)
    IN  Rat(n * SeqSum(SqSeq(t.data)) - s * s, n * n)

DefaultWeight == Rat(1, 1)

EmptyDict == [k \in {} |-> 0]

\* ------------------------------------------------------------------------
\* Python values
\* ------------------------------------------------------------------------
NoneId == "None"                          \* None, where a str is expected
PyNone == [py |-> "None"]
PyDict(d) == [py |-> "dict", items |-> d]
PyOther == [py |-> "list"]                \* a loaded object that is no dict
isinstance_dict(v) == v.py = "dict"

NoExc == [type |-> "None", msg |-> ""]
KeyError(k) == [type |-> "KeyError", msg |-> "'" \o k \o "'"]
ValueError(m) == [type |-> "ValueError", msg |-> m]
IOError == [type |-> "OSError", msg |-> "I/O failure"]
Return(v) == [ok |-> TRUE, value |-> v]
Raise(e) == [ok |-> FALSE, exc |-> e]

\* dict.get(k, default)
Get(d, k, default) == IF k \in DOMAIN d THEN d[k] ELSE default
\* d.update(u)
Update(d, u) == u @@ d

\* mutant: the enumeration starts at 1
layer_id_from_one(i) == "layer_" \o ToString(i + 1)

\* f"layer_{i}"
layer_id_of(i) == "layer_" \o ToString(i)
\* f"{name}.weight"
weight_key_of(name) == name \o ".weight"

\* ------------------------------------------------------------------------
\* src/src/python/pytorch_converter.py: the layer catalogue
\* ------------------------------------------------------------------------
SupportedTypes ==
    {"Conv2d", "Conv1d", "Linear", "BatchNorm2d", "BatchNorm1d", "ReLU",
     "MaxPool2d", "MaxPool1d", "Dropout", "LSTM", "GRU", "LeakyReLU",
     "Sigmoid", "Tanh"}

\* the keys create_layer_from_info subscripts (layer_info[k]), in the order
\* the constructor call evaluates them
RequiredKeys(t) ==
    CASE t \in {"Conv2d", "Conv1d"} -> <<"in_channels", "out_channels">>
      [] t = "Linear" -> <<"in_features", "out_features">>
      [] t \in {"BatchNorm2d", "BatchNorm1d"} -> <<"num_features">>
      [] t \in {"LSTM", "GRU"} -> <<"input_size", "hidden_size">>
      [] OTHER -> <<>>

MissingKeys(t, layer_info) ==
    SelectSeq(RequiredKeys(t), LAMBDA k : k \notin DOMAIN layer_info)

\* parameters of a recurrent layer: gates*h*(in_l + h) + 2*gates*h per layer
\* and direction, in_l = input_size for layer 0 and h*dirs after it
RECURSIVE RnnParams(_, _, _, _, _)
RnnParams(gates, input_size, h, dirs, layers_left) ==
    IF layers_left = 0 THEN 0
    ELSE dirs * (gates * h * (input_size + h) + 2 * gates * h)
         + RnnParams(gates, h * dirs, h, dirs, layers_left - 1)

\* sum(p.numel() for p in layer.parameters() if p.requires_grad) of the layer
\* create_layer_from_info builds
ParamCount(t, li) ==
    CASE t = "Conv2d" -> li.in_channels * li.out_channels * 9 + li.out_channels
      [] t = "Conv1d" -> li.in_channels * li.out_channels * Get(li, "kernel_size", 3)
                         + li.out_channels
      [] t = "Linear" -> li.in_features * li.out_features + li.out_features
      [] t \in {"BatchNorm2d", "BatchNorm1d"} -> 2 * li.num_features
      [] t \in {"LSTM", "GRU"} ->
            RnnParams(IF t = "LSTM" THEN 4 ELSE 3, li.input_size, li.hidden_size,
                      IF Get(li, "bidirectional", FALSE) THEN 2 ELSE 1,
                      Get(li, "num_layers", 1))
      [] OTHER -> 0

create_layer_from_info(layer_info) ==
    IF "type" \notin DOMAIN layer_info THEN Raise(KeyError("type"))
    ELSE LET layer_type == layer_info.type
             missing == MissingKeys(layer_type, layer_info)
         IN  IF layer_type \notin SupportedTypes
             THEN Raise(ValueError("Unsupported layer type: " \o layer_type))
             ELSE IF missing # <<>> THEN Raise(KeyError(missing[1]))
             ELSE Return([cls |-> layer_type,
                          trainable_parameters |-> ParamCount(layer_type, layer_info)])

\* mutant: a Linear layer's two sizes are exchanged
py_get_layer_properties_swapped(layer, layer_info) ==
    LET props == [type |-> layer_info.type,
                  trainable_parameters |-> layer.trainable_parameters]
        c == layer.cls
    IN  CASE c = "Linear" ->
               Update(props, [in_features |-> layer_info.out_features,
                              out_features |-> layer_info.in_features,
                              has_bias |-> TRUE])
          [] c \in {"Conv1d", "Conv2d"} ->
               Update(props, [in_channels |-> layer_info.in_channels,
                              out_channels |-> layer_info.out_channels,
                              kernel_size |-> Get(layer_info, "kernel_size", 3),
                              stride |-> Get(layer_info, "stride", 1),
                              padding |-> Get(layer_info, "padding", 0),
                              has_bias |-> TRUE])
          [] c \in {"BatchNorm1d", "BatchNorm2d"} ->
               Update(props, [num_features |-> layer_info.num_features,
                              eps |-> Rat(1, 100000),
                              momentum |-> Rat(1, 10),
                              affine |-> TRUE])
          [] c \in {"LSTM", "GRU"} ->
               Update(props, [input_size |-> layer_info.input_size,
                              hidden_size |-> layer_info.hidden_size,
                              num_layers |-> Get(layer_info, "num_layers", 1),
                              bidirectional |-> Get(layer_info, "bidirectional", FALSE),
                              has_bias |-> TRUE])
          [] c \in {"MaxPool1d", "MaxPool2d"} ->
               LET base == Update(props, [kernel_size |-> Get(layer_info, "kernel_size", 2),
                                          padding |-> Get(layer_info, "padding", 0)])
               IN  IF "stride" \in DOMAIN layer_info
                   THEN Update(base, [stride |-> layer_info.stride])
                   ELSE base
          [] c = "Dropout" -> Update(props, [p |-> Get(layer_info, "p", Rat(1, 2))])
          [] c = "ReLU" -> Update(props, [activation_type |-> "ReLU", inplace |-> FALSE])
          [] c = "LeakyReLU" ->
               Update(props, [activation_type |-> "LeakyReLU",
                              negative_slope |-> Get(layer_info, "negative_slope", Rat(1, 100)),
                              inplace |-> FALSE])
          [] c \in {"Sigmoid", "Tanh"} -> Update(props, [activation_type |-> c])
          [] OTHER -> props

\* get_layer_properties(layer, layer_info), then .dict(exclude_none=True)
py_get_layer_properties(layer, layer_info) ==
    LET props == [type |-> layer_info.type,
                  trainable_parameters |-> layer.trainable_parameters]
        c == layer.cls
    IN  CASE c = "Linear" ->
               Update(props, [in_features |-> layer_info.in_features,
                              out_features |-> layer_info.out_features,
                              has_bias |-> TRUE])
          [] c \in {"Conv1d", "Conv2d"} ->
               Update(props, [in_channels |-> layer_info.in_channels,
                              out_channels |-> layer_info.out_channels,
                              kernel_size |-> Get(layer_info, "kernel_size", 3),
                              stride |-> Get(layer_info, "stride", 1),
                              padding |-> Get(layer_info, "padding", 0),
                              has_bias |-> TRUE])
          [] c \in {"BatchNorm1d", "BatchNorm2d"} ->
               Update(props, [num_features |-> layer_info.num_features,
                              eps |-> Rat(1, 100000),
                              momentum |-> Rat(1, 10),
                              affine |-> TRUE])
          [] c \in {"LSTM", "GRU"} ->
               Update(props, [input_size |-> layer_info.input_size,
                              hidden_size |-> layer_info.hidden_size,
                              num_layers |-> Get(layer_info, "num_layers", 1),
                              bidirectional |-> Get(layer_info, "bidirectional", FALSE),
                              has_bias |-> TRUE])
          [] c \in {"MaxPool1d", "MaxPool2d"} ->
               LET base == Update(props, [kernel_size |-> Get(layer_info, "kernel_size", 2),
                                          padding |-> Get(layer_info, "padding", 0)])
               IN  IF "stride" \in DOMAIN layer_info
                   THEN Update(base, [stride |-> layer_info.stride])
                   ELSE base
          [] c = "Dropout" -> Update(props, [p |-> Get(layer_info, "p", Rat(1, 2))])
          [] c = "ReLU" -> Update(props, [activation_type |-> "ReLU", inplace |-> FALSE])
          [] c = "LeakyReLU" ->
               Update(props, [activation_type |-> "LeakyReLU",
                              negative_slope |-> Get(layer_info, "negative_slope", Rat(1, 100)),
                              inplace |-> FALSE])
          [] c \in {"Sigmoid", "Tanh"} -> Update(props, [activation_type |-> c])
          [] OTHER -> props

\* the statistics block of lines 178-183
py_weight_props(weight_data) ==
    [max_weight |-> np_max(weight_data),
     min_weight |-> np_min(weight_data),
     std_weight |-> np_std(weight_data),
     shape |-> weight_data.shape]

NetworkNode(id, type, properties) ==
    [id |-> id, type |-> type, properties |-> properties]
NetworkConnection(source, target, weight, properties) ==
    [source |-> source, target |-> target, weight |-> weight, properties |-> properties]
NeuroscopeNetwork(type, ns, cs) ==
    [type |-> type, nodes |-> ns, connections |-> cs]

\* ------------------------------------------------------------------------
\* Inputs
\* ------------------------------------------------------------------------
T_neg == [shape |-> <<1, 2>>, data |-> <<-2, -4>>]
T_mix == [shape |-> <<2, 2>>, data |-> <<3, -1, 0, 2>>]
T_zero == [shape |-> <<2>>, data |-> <<0, 0>>]
Tensors == {T_neg, T_mix, T_zero}

\* uploaded file names, split at the extension
Filenames == {[stem |-> "model", ext |-> e] : e \in {".pt", ".pth", ".txt"}}

\* mutant: the extension is looked for anywhere in the file name
endswith_contains(filename, suffixes) ==
    filename.ext \in suffixes \/ (filename.ext = ".pth" /\ ".pt" \in suffixes)

endswith(filename, suffixes) == filename.ext \in suffixes
filename_str(filename) == filename.stem \o filename.ext

\* what torch.load may return for the weights file
StateDicts ==
    {EmptyDict,
     "fc1.weight" :> T_neg,
     "fc2.weight" :> T_mix,
     ("fc1.weight" :> T_mix) @@ ("fc2.weight" :> T_neg),
     ("fc1.bias" :> T_mix) @@ ("fc2.weight" :> T_zero),
     ("fc1.weight" :> T_zero) @@ ("fc2.weight" :> T_neg)}
WeightsInputs == {PyDict(d) : d \in StateDicts} \cup {PyOther}

\* layer entries of a structure descriptor
EntryInputs ==
    {[type |-> "Linear", name |-> "fc1", in_features |-> 2, out_features |-> 1],
     [type |-> "Linear", name |-> "fc2", in_features |-> 3, out_features |-> 2],
     [type |-> "Linear", in_features |-> 2, out_features |-> 1],
     [type |-> "Linear", name |-> "fc1", out_features |-> 1],
     [type |-> "ReLU", name |-> "relu"],
     [type |-> "FooLayer", name |-> "fc1"],
     [type |-> "LogSoftmax", name |-> "fc2"],
     [name |-> "fc2"]}

BoundedSeq(S, n) == UNION {[1..k -> S] : k \in 0..n}

\* what torch.load may return for the structure descriptor file
ModelInfoInputs ==
    {PyDict([name |-> "TestNetwork", layers |-> L]) : L \in BoundedSeq(EntryInputs, MaxLayers)}
    \cup {PyDict([name |-> "TestNetwork"]), PyOther}

\* ------------------------------------------------------------------------
\* State
\* ------------------------------------------------------------------------
VARIABLES
    op,             \* the entry point this run executes
    pc,             \* position in that entry point
    weights_file,   \* uploaded weights file name
    info_file,      \* uploaded descriptor file name
    disk,           \* temporary files present on disk
    created,        \* every temporary file this request created
    temp_files,     \* py main.py: list of temp file names
    weights_tmp,    \* svc main.py: name of the weights temp file or None
    info_tmp,       \* svc main.py: name of the descriptor temp file or None
    weights,        \* loaded weights object
    model_info,     \* loaded structure descriptor
    nodes,          \* converter local: nodes built so far
    connections,    \* converter local: connections built so far
    prev_layer_id,  \* converter local: id of the previous node or None
    idx,            \* converter local: the loop index i
    exc,            \* exception in flight
    model,          \* the live model handed to a direct converter call
    hooks,          \* forward hooks registered on each childless module
    runs,           \* the concurrent converter invocations, each with its locals
    response        \* what the caller receives

request == <<weights_file, info_file>>
files == <<disk, created>>
handles == <<temp_files, weights_tmp, info_tmp>>
loaded == <<weights, model_info>>
locals == <<nodes, connections, prev_layer_id, idx>>
vars == <<op, pc, model, hooks, runs, request, files, handles, loaded, locals, exc,
          response>>

\* what a caller can receive: nothing yet, a network, an HTTP error, or the
\* exception a directly called function raised
NoResponse == [kind |-> "none"]
HTTPException(status_code, detail) ==
    [kind |-> "http_error", status |-> status_code, detail |-> detail]
Ok(body) == [kind |-> "network", body |-> body]
Raised(e) == [kind |-> "exception", exc |-> e]

\* tempfile.NamedTemporaryFile: a name no earlier file of the request has
NewTmpName == "tmp" \o ToString(Cardinality(created) + 1)
\* tmp_file.name of the file opened last
tmp_file_name == "tmp" \o ToString(Cardinality(created))
Range(s) == {s[k] : k \in 1..Len(s)}

\* ------------------------------------------------------------------------
\* src/src/python/pytorch_converter.py: convert_pytorch_model(model_data)
\* ------------------------------------------------------------------------
\* "weight_key in state_dict": key membership of a dict, element membership
\* (never true of a key string) of a loaded list
contains(state_dict, weight_key) ==
    isinstance_dict(state_dict) /\ weight_key \in DOMAIN state_dict.items

\* mutant: the weight key is built from the entry's name before the test
\* for a previous layer
py_loop_body_key_first(ns, cs, prev, i, layer_info, state_dict) ==
    LET layer_id == layer_id_of(i)
        layer == create_layer_from_info(layer_info)
        before == [nodes |-> ns, connections |-> cs, prev_layer_id |-> prev, exc |-> NoExc]
    IN  IF ~layer.ok THEN [before EXCEPT !.exc = layer.exc]
        ELSE
        LET properties == py_get_layer_properties(layer.value, layer_info)
            with_node == [before EXCEPT
                            !.nodes = Append(ns, NetworkNode(layer_id, layer_info.type, properties))]
        IN  IF "name" \notin DOMAIN layer_info
            THEN [with_node EXCEPT !.exc = KeyError("name")]
            ELSE IF prev = NoneId THEN [with_node EXCEPT !.prev_layer_id = layer_id]
            ELSE
            LET weight_key == weight_key_of(layer_info.name)
                weight_props == IF contains(state_dict, weight_key)
                                THEN py_weight_props(state_dict.items[weight_key])
                                ELSE EmptyDict
            IN  [with_node EXCEPT
                   !.connections = Append(cs, NetworkConnection(prev, layer_id,
                                                                DefaultWeight, weight_props)),
                   !.prev_layer_id = layer_id]

\* one iteration of the loop of lines 155-192, from the locals before it to
\* the locals after it and the exception it raised, if any
py_loop_body(ns, cs, prev, i, layer_info, state_dict) ==
    LET layer_id == layer_id_of(i)
        layer == create_layer_from_info(layer_info)
        before == [nodes |-> ns, connections |-> cs, prev_layer_id |-> prev, exc |-> NoExc]
    IN  IF ~layer.ok THEN [before EXCEPT !.exc = layer.exc]
        ELSE
        LET properties == py_get_layer_properties(layer.value, layer_info)
            with_node == [before EXCEPT
                            !.nodes = Append(ns, NetworkNode(layer_id, layer_info.type, properties))]
        IN  IF prev = NoneId THEN [with_node EXCEPT !.prev_layer_id = layer_id]
            ELSE IF "name" \notin DOMAIN layer_info
            THEN [with_node EXCEPT !.exc = KeyError("name")]
            ELSE
            LET weight_key == weight_key_of(layer_info.name)
                weight_props == IF contains(state_dict, weight_key)
                                THEN py_weight_props(state_dict.items[weight_key])
                                ELSE EmptyDict
            IN  [with_node EXCEPT
                   !.connections = Append(cs, NetworkConnection(prev, layer_id,
                                                                DefaultWeight, weight_props)),
                   !.prev_layer_id = layer_id]

\* ------------------------------------------------------------------------
\* src/src/python/main.py: import_pytorch_model
\* ------------------------------------------------------------------------
\* mutant: the error response also carries what the converter had built
py_error_response_partial(e) ==
    [kind |-> "http_error", status |-> 500,
     detail |-> "Failed to load model: " \o e.msg,
     body |-> NeuroscopeNetwork("ANN", nodes, connections)]

\* what the except clause of lines 93-103 answers
py_error_response(e) == HTTPException(500, "Failed to load model: " \o e.msg)

\* lines 51-56
py_check_filenames ==
    /\ op = "py_import" /\ pc = "start"
    /\ IF ~endswith(weights_file, {".pt", ".pth"})
       THEN /\ response' = HTTPException(400, "Invalid file type for "
                              \o filename_str(weights_file)
                              \o ". Only .pt and .pth files are supported.")
            /\ pc' = "done"
       ELSE IF ~endswith(info_file, {".pt", ".pth"})
       THEN /\ response' = HTTPException(400, "Invalid file type for "
                              \o filename_str(info_file)
                              \o ". Only .pt and .pth files are supported.")
            /\ pc' = "done"
       ELSE /\ pc' = "py_open_weights"
            /\ UNCHANGED response
    /\ UNCHANGED <<op, model, hooks, runs, request, files, handles, loaded, locals, exc>>

\* a step of the try block that raises: control moves to the except clause
py_raise(e) ==
    /\ pc' = "py_except"
    /\ exc' = e

\* line 63: NamedTemporaryFile(delete=False) creates the file, or fails
py_open_weights ==
    /\ op = "py_import" /\ pc = "py_open_weights"
    /\ \/ /\ disk' = disk \cup {NewTmpName}
          /\ created' = created \cup {NewTmpName}
          /\ pc' = "py_write_weights"
          /\ UNCHANGED exc
       \/ /\ py_raise(IOError)
          /\ UNCHANGED files
    /\ UNCHANGED <<op, model, hooks, runs, request, handles, loaded, locals, response>>

\* lines 64-66: read the upload, write and flush it
py_write_weights ==
    /\ op = "py_import" /\ pc = "py_write_weights"
    /\ \/ pc' = "py_load_weights" /\ UNCHANGED exc
       \/ py_raise(IOError)
    /\ UNCHANGED <<op, model, hooks, runs, request, files, handles, loaded, locals, response>>

\* lines 67-68: record the name, then torch.load
py_load_weights ==
    /\ op = "py_import" /\ pc = "py_load_weights"
    /\ temp_files' = Append(temp_files, tmp_file_name)
    /\ \/ /\ \E w \in WeightsInputs : weights' = w
          /\ pc' = "py_open_info"
          /\ UNCHANGED exc
       \/ /\ py_raise(IOError)
          /\ UNCHANGED weights
    /\ UNCHANGED <<op, model, hooks, runs, request, files, weights_tmp, info_tmp, model_info, locals, response>>

\* line 71
py_open_info ==
    /\ op = "py_import" /\ pc = "py_open_info"
    /\ \/ /\ disk' = disk \cup {NewTmpName}
          /\ created' = created \cup {NewTmpName}
          /\ pc' = "py_write_info"
          /\ UNCHANGED exc
       \/ /\ py_raise(IOError)
          /\ UNCHANGED files
    /\ UNCHANGED <<op, model, hooks, runs, request, handles, loaded, locals, response>>

\* lines 72-74
py_write_info ==
    /\ op = "py_import" /\ pc = "py_write_info"
    /\ \/ pc' = "py_load_info" /\ UNCHANGED exc
       \/ py_raise(IOError)
    /\ UNCHANGED <<op, model, hooks, runs, request, files, handles, loaded, locals, response>>

\* lines 75-76
py_load_info ==
    /\ op = "py_import" /\ pc = "py_load_info"
    /\ temp_files' = Append(temp_files, tmp_file_name)
    /\ \/ /\ \E m \in ModelInfoInputs : model_info' = m
          /\ pc' = "py_unlink"
          /\ UNCHANGED exc
       \/ /\ py_raise(IOError)
          /\ UNCHANGED model_info
    /\ UNCHANGED <<op, model, hooks, runs, request, files, weights_tmp, info_tmp, weights, locals, response>>

\* lines 79-80
py_unlink ==
    /\ op = "py_import" /\ pc = "py_unlink"
    /\ disk' = disk \ Range(temp_files)
    /\ pc' = "py_validate"
    /\ UNCHANGED <<op, model, hooks, runs, request, created, handles, loaded, locals, exc, response>>

\* lines 83-84, and the entry of convert_pytorch_model (lines 146-154)
py_validate ==
    /\ op = "py_import" /\ pc = "py_validate"
    /\ IF ~isinstance_dict(model_info) \/ "layers" \notin DOMAIN model_info.items
       THEN /\ py_raise(ValueError(
                 "Invalid model info format. Expected a dictionary with 'layers' key"))
            /\ UNCHANGED locals
       ELSE /\ nodes' = <<>>
            /\ connections' = <<>>
            /\ prev_layer_id' = NoneId
            /\ idx' = 0
            /\ pc' = "py_convert"
            /\ UNCHANGED exc
    /\ UNCHANGED <<op, model, hooks, runs, request, files, handles, loaded, response>>

\* one iteration of the loop of convert_pytorch_model
py_convert_step ==
    /\ op = "py_import" /\ pc = "py_convert"
    /\ idx < Len(model_info.items.layers)
    /\ LET after == py_loop_body(nodes, connections, prev_layer_id, idx,
                                 model_info.items.layers[idx + 1], weights)
       IN  /\ nodes' = after.nodes
           /\ connections' = after.connections
           /\ prev_layer_id' = after.prev_layer_id
           /\ IF after.exc # NoExc
              THEN py_raise(after.exc) /\ UNCHANGED idx
              ELSE idx' = idx + 1 /\ UNCHANGED <<pc, exc>>
    /\ UNCHANGED <<op, model, hooks, runs, request, files, handles, loaded, response>>

\* lines 194-198 of the converter and line 91 of main.py
py_convert_return ==
    /\ op = "py_import" /\ pc = "py_convert"
    /\ idx = Len(model_info.items.layers)
    /\ response' = Ok(NeuroscopeNetwork("ANN", nodes, connections))
    /\ pc' = "done"
    /\ UNCHANGED <<op, model, hooks, runs, request, files, handles, loaded, locals, exc>>

\* lines 93-103: unlink what temp_files lists, ignoring failures, answer 500
py_except ==
    /\ op = "py_import" /\ pc = "py_except"
    /\ disk' = disk \ Range(temp_files)
    /\ response' = py_error_response(exc)
    /\ pc' = "done"
    /\ UNCHANGED <<op, model, hooks, runs, request, created, handles, loaded, locals, exc>>

py_import_pytorch_model ==
    \/ py_check_filenames
    \/ py_open_weights \/ py_write_weights \/ py_load_weights
    \/ py_open_info \/ py_write_info \/ py_load_info
    \/ py_unlink \/ py_validate
    \/ py_convert_step \/ py_convert_return
    \/ py_except

\* ------------------------------------------------------------------------
\* src/python_service/main.py: import_pytorch_model
\* ------------------------------------------------------------------------
\* mutant: the tensor is subscripted without the membership test
svc_loop_body_strict_lookup(ns, cs, prev, i, layer, state_dict) ==
    LET before == [nodes |-> ns, connections |-> cs, prev_layer_id |-> prev, exc |-> NoExc]
    IN  IF "type" \notin DOMAIN layer THEN [before EXCEPT !.exc = KeyError("type")]
        ELSE
        LET node == NetworkNode(layer_id_of(i), layer.type, layer)
            with_node == [before EXCEPT !.nodes = Append(ns, node)]
        IN  IF prev = NoneId THEN [with_node EXCEPT !.prev_layer_id = node.id]
            ELSE IF "name" \notin DOMAIN layer
            THEN [with_node EXCEPT !.exc = KeyError("name")]
            ELSE
            LET weight_key == weight_key_of(layer.name)
            IN  IF ~contains(state_dict, weight_key)
                THEN [with_node EXCEPT !.exc = KeyError(weight_key)]
                ELSE [with_node EXCEPT
                        !.connections =
                            Append(cs, NetworkConnection(prev, node.id,
                                       np_mean_abs(state_dict.items[weight_key]),
                                       EmptyDict)),
                        !.prev_layer_id = node.id]

\* mutant: a missing type tag is replaced by a default (layer.get)
svc_loop_body_default_type(ns, cs, prev, i, layer, state_dict) ==
    LET before == [nodes |-> ns, connections |-> cs, prev_layer_id |-> prev, exc |-> NoExc]
        node == NetworkNode(layer_id_of(i), Get(layer, "type", "Unknown"), layer)
        with_node == [before EXCEPT !.nodes = Append(ns, node)]
    IN  IF prev = NoneId THEN [with_node EXCEPT !.prev_layer_id = node.id]
        ELSE IF "name" \notin DOMAIN layer
        THEN [with_node EXCEPT !.exc = KeyError("name")]
        ELSE
        LET weight_key == weight_key_of(layer.name)
            weight == IF contains(state_dict, weight_key)
                      THEN np_mean_abs(state_dict.items[weight_key])
                      ELSE DefaultWeight
        IN  [with_node EXCEPT
               !.connections = Append(cs, NetworkConnection(prev, node.id,
                                                            weight, EmptyDict)),
               !.prev_layer_id = node.id]

\* one iteration of the loop of lines 93-118
svc_loop_body(ns, cs, prev, i, layer, state_dict) ==
    LET before == [nodes |-> ns, connections |-> cs, prev_layer_id |-> prev, exc |-> NoExc]
    IN  IF "type" \notin DOMAIN layer THEN [before EXCEPT !.exc = KeyError("type")]
        ELSE
        LET node == NetworkNode(layer_id_of(i), layer.type, layer)
            with_node == [before EXCEPT !.nodes = Append(ns, node)]
        IN  IF prev = NoneId THEN [with_node EXCEPT !.prev_layer_id = node.id]
            ELSE IF "name" \notin DOMAIN layer
            THEN [with_node EXCEPT !.exc = KeyError("name")]
            ELSE
            LET weight_key == weight_key_of(layer.name)
                weight == IF contains(state_dict, weight_key)
                          THEN np_mean_abs(state_dict.items[weight_key])
                          ELSE DefaultWeight
            IN  [with_node EXCEPT
                   !.connections = Append(cs, NetworkConnection(prev, node.id,
                                                                weight, EmptyDict)),
                   !.prev_layer_id = node.id]

\* what the except clause of lines 129-133 answers
svc_error_response(e) == HTTPException(500, "Failed to process model: " \o e.msg)

\* an HTTPException raised inside the try block, as the except clause sees it
\* (str(e) is "<status>: <detail>")
svc_http_exc(status_code, detail) ==
    [type |-> "HTTPException", msg |-> ToString(status_code) \o ": " \o detail]

\* lines 42-55
svc_check_filenames ==
    /\ op = "svc_import" /\ pc = "start"
    /\ IF ~endswith(weights_file, {".pt", ".pth"})
       THEN /\ response' = HTTPException(400,
                   "Invalid weights file type. Only .pt and .pth files are supported.")
            /\ pc' = "done"
       ELSE IF ~endswith(info_file, {".pt"})
       THEN /\ response' = HTTPException(400,
                   "Invalid info file type. Only .pt files are supported.")
            /\ pc' = "done"
       ELSE /\ pc' = "svc_open_weights"
            /\ UNCHANGED response
    /\ UNCHANGED <<op, model, hooks, runs, request, files, handles, loaded, locals, exc>>

\* a step of the try block that raises: control moves to the except clause
svc_raise(e) ==
    /\ pc' = "svc_except"
    /\ exc' = e

\* line 59
svc_open_weights ==
    /\ op = "svc_import" /\ pc = "svc_open_weights"
    /\ \/ /\ disk' = disk \cup {NewTmpName}
          /\ created' = created \cup {NewTmpName}
          /\ weights_tmp' = NewTmpName
          /\ pc' = "svc_open_info"
          /\ UNCHANGED exc
       \/ /\ svc_raise(IOError)
          /\ UNCHANGED <<files, weights_tmp>>
    /\ UNCHANGED <<op, model, hooks, runs, request, temp_files, info_tmp, loaded, locals, response>>

\* line 60
svc_open_info ==
    /\ op = "svc_import" /\ pc = "svc_open_info"
    /\ \/ /\ disk' = disk \cup {NewTmpName}
          /\ created' = created \cup {NewTmpName}
          /\ info_tmp' = NewTmpName
          /\ pc' = "svc_write"
          /\ UNCHANGED exc
       \/ /\ svc_raise(IOError)
          /\ UNCHANGED <<files, info_tmp>>
    /\ UNCHANGED <<op, model, hooks, runs, request, temp_files, weights_tmp, loaded, locals, response>>

\* lines 63-70: read both uploads, write, flush and close both files
svc_write ==
    /\ op = "svc_import" /\ pc = "svc_write"
    /\ \/ pc' = "svc_load_info" /\ UNCHANGED exc
       \/ svc_raise(IOError)
    /\ UNCHANGED <<op, model, hooks, runs, request, files, handles, loaded, locals, response>>

\* lines 73-78
svc_load_info ==
    /\ op = "svc_import" /\ pc = "svc_load_info"
    /\ \/ \E m \in ModelInfoInputs :
            /\ model_info' = m
            /\ IF ~isinstance_dict(m) \/ "layers" \notin DOMAIN m.items
               THEN svc_raise(svc_http_exc(400, "Invalid model info file format"))
               ELSE pc' = "svc_load_weights" /\ UNCHANGED exc
       \/ /\ svc_raise(IOError)
          /\ UNCHANGED model_info
    /\ UNCHANGED <<op, model, hooks, runs, request, files, handles, weights, locals, response>>

\* lines 81-91
svc_load_weights ==
    /\ op = "svc_import" /\ pc = "svc_load_weights"
    /\ \/ \E w \in WeightsInputs :
            /\ weights' = w
            /\ IF ~isinstance_dict(w)
               THEN /\ svc_raise(svc_http_exc(400, "Invalid weights file format"))
                    /\ UNCHANGED locals
               ELSE /\ nodes' = <<>>
                    /\ connections' = <<>>
                    /\ prev_layer_id' = NoneId
                    /\ idx' = 0
                    /\ pc' = "svc_convert"
                    /\ UNCHANGED exc
       \/ /\ svc_raise(IOError)
          /\ UNCHANGED <<weights, locals>>
    /\ UNCHANGED <<op, model, hooks, runs, request, files, handles, model_info, response>>

\* one iteration of the loop of lines 93-118
svc_convert_step ==
    /\ op = "svc_import" /\ pc = "svc_convert"
    /\ idx < Len(model_info.items.layers)
    /\ LET after == svc_loop_body(nodes, connections, prev_layer_id, idx,
                                  model_info.items.layers[idx + 1], weights)
       IN  /\ nodes' = after.nodes
           /\ connections' = after.connections
           /\ prev_layer_id' = after.prev_layer_id
           /\ IF after.exc # NoExc
              THEN svc_raise(after.exc) /\ UNCHANGED idx
              ELSE idx' = idx + 1 /\ UNCHANGED <<pc, exc>>
    /\ UNCHANGED <<op, model, hooks, runs, request, files, handles, loaded, response>>

\* lines 121-127: the value to return; the finally clause still has to run
svc_convert_return ==
    /\ op = "svc_import" /\ pc = "svc_convert"
    /\ idx = Len(model_info.items.layers)
    /\ response' = Ok(NeuroscopeNetwork("ANN", nodes, connections))
    /\ pc' = "svc_finally"
    /\ UNCHANGED <<op, model, hooks, runs, request, files, handles, loaded, locals, exc>>

\* lines 129-133
svc_except ==
    /\ op = "svc_import" /\ pc = "svc_except"
    /\ response' = svc_error_response(exc)
    /\ pc' = "svc_finally"
    /\ UNCHANGED <<op, model, hooks, runs, request, files, handles, loaded, locals, exc>>

\* lines 134-145: unlink both temp files that were opened, ignoring failures
svc_finally ==
    /\ op = "svc_import" /\ pc = "svc_finally"
    /\ disk' = disk \ ({weights_tmp, info_tmp} \ {NoneId})
    /\ pc' = "done"
    /\ UNCHANGED <<op, model, hooks, runs, request, created, handles, loaded, locals, exc, response>>

svc_import_pytorch_model ==
    \/ svc_check_filenames
    \/ svc_open_weights \/ svc_open_info \/ svc_write
    \/ svc_load_info \/ svc_load_weights
    \/ svc_convert_step \/ svc_convert_return
    \/ svc_except \/ svc_finally

\* ------------------------------------------------------------------------
\* Live models: a module is [cls, attrs, children]; attrs holds the instance
\* attributes the converters read.  A leaf of LeafPool carries "obj", the
\* identity of one module instance: the same pool leaf at two places of a
\* model is the same Python object there.  Containers are distinct objects.
\* ------------------------------------------------------------------------
LeafPool ==
    {[cls |-> "Linear", obj |-> "fc", children |-> <<>>,
      attrs |-> [in_features |-> 2, out_features |-> 1, weight |-> T_neg,
                 bias |-> T_zero, own_params |-> 3]],
     [cls |-> "ReLU", obj |-> "act1", children |-> <<>>,
      attrs |-> [inplace |-> FALSE, own_params |-> 0]],
     [cls |-> "ReLU", obj |-> "act2", children |-> <<>>,
      attrs |-> [inplace |-> FALSE, own_params |-> 0]],
     [cls |-> "LayerNorm", obj |-> "ln_affine", children |-> <<>>,
      attrs |-> [normalized_shape |-> <<2, 2>>, eps |-> Rat(1, 100000),
                 elementwise_affine |-> TRUE, weight |-> T_mix, bias |-> T_zero,
                 own_params |-> 8]],
     [cls |-> "LayerNorm", obj |-> "ln_plain", children |-> <<>>,
      attrs |-> [normalized_shape |-> <<2, 2>>, eps |-> Rat(1, 100000),
                 elementwise_affine |-> FALSE, weight |-> PyNone, bias |-> PyNone,
                 own_params |-> 0]]}

\* "Net" is a user-defined nn.Module subclass
ContainerClasses == {"Sequential", "ModuleList", "Net"}
Container(c, kids) ==
    [cls |-> c, children |-> kids, attrs |-> [own_params |-> 0]]

RECURSIVE TreesOfSize(_)
RECURSIVE ForestsOfSize(_)
TreesOfSize(n) ==
    (IF n = 1 THEN LeafPool ELSE {})
    \cup {Container(c, kids) : c \in ContainerClasses, kids \in ForestsOfSize(n - 1)}
ForestsOfSize(k) ==
    IF k = 0 THEN {<<>>}
    ELSE UNION {{<<t>> \o f : t \in TreesOfSize(j), f \in ForestsOfSize(k - j)} : j \in 1..k}

ModelInputs == UNION {TreesOfSize(n) : n \in 1..MaxModules}

NoModel == Container("None", <<>>)

SameObject(a, b) == "obj" \in DOMAIN a /\ a = b

\* the key under which the k-th registered child is stored
child_name(layer, k) ==
    IF layer.cls \in {"Sequential", "ModuleList"} THEN ToString(k - 1)
    ELSE "m" \o ToString(k - 1)

\* nn.Module.named_children(): the registered children in order, each module
\* instance once
named_children(layer) ==
    LET keep == SelectSeq([k \in 1..Len(layer.children) |-> k],
                          LAMBDA k : \A j \in 1..(k - 1) :
                                        ~SameObject(layer.children[j], layer.children[k]))
    IN  [q \in 1..Len(keep) |->
            [name |-> child_name(layer, keep[q]), module |-> layer.children[keep[q]]]]

hasattr(layer, a) == a \in DOMAIN layer.attrs

\* the module instances with parameters at and below a layer (pool leaves; a
\* container has no parameters of its own)
RECURSIVE ParamObjects(_)
ParamObjects(layer) ==
    (IF "obj" \in DOMAIN layer THEN {layer} ELSE {})
    \cup UNION {ParamObjects(layer.children[k]) : k \in 1..Len(layer.children)}

RECURSIVE SumOwnParams(_)
SumOwnParams(S) ==
    IF S = {} THEN 0
    ELSE LET m == CHOOSE x \in S : TRUE
         IN  m.attrs.own_params + SumOwnParams(S \ {m})

\* sum(p.numel() for p in layer.parameters() if p.requires_grad)
trainable_parameters(layer) == SumOwnParams(ParamObjects(layer))

\* the identities of the childless modules at and below a layer, as
\* model.modules() yields them (each instance once): a pool leaf is its
\* "obj", a childless container is its place in the tree
RECURSIVE LeafModules(_, _)
LeafModules(layer, path) ==
    IF Len(layer.children) = 0
    THEN {IF "obj" \in DOMAIN layer THEN layer.obj ELSE path}
    ELSE UNION {LeafModules(layer.children[k], path \o "." \o ToString(k - 1))
                   : k \in 1..Len(layer.children)}

\* no hook on any module
NoHooks(ids) == [m \in ids |-> 0]

\* ------------------------------------------------------------------------
\* src/python_service/pytorch_converter.py
\* ------------------------------------------------------------------------
\* register_activation_hooks(model): one more forward hook on every
\* childless module of the model
register_activation_hooks(h, m, path) ==
    [id \in DOMAIN h |-> IF id \in LeafModules(m, path) THEN h[id] + 1 ELSE h[id]]

svc_get_layer_properties(layer) ==
    LET properties ==
            [type |-> layer.cls,
             trainable_parameters |-> trainable_parameters(layer),
             has_bias |-> hasattr(layer, "bias") /\ layer.attrs.bias # PyNone]
        c == layer.cls
        a == layer.attrs
    IN  CASE c = "Linear" ->
               Update(properties, [in_features |-> a.in_features,
                                   out_features |-> a.out_features])
          [] c = "Conv2d" ->
               Update(properties, [in_channels |-> a.in_channels,
                                   out_channels |-> a.out_channels,
                                   kernel_size |-> a.kernel_size,
                                   stride |-> a.stride,
                                   padding |-> a.padding])
          [] c \in {"MaxPool2d", "AvgPool2d"} ->
               Update(properties, [kernel_size |-> a.kernel_size,
                                   stride |-> a.stride,
                                   padding |-> a.padding])
          [] c = "ReLU" -> Update(properties, [inplace |-> a.inplace])
          [] c = "LeakyReLU" ->
               Update(properties, [inplace |-> a.inplace,
                                   negative_slope |-> a.negative_slope])
          [] c = "Dropout" -> Update(properties, [p |-> a.p, inplace |-> a.inplace])
          [] c = "BatchNorm2d" ->
               Update(properties, [num_features |-> a.num_features,
                                   eps |-> a.eps,
                                   momentum |-> a.momentum,
                                   affine |-> a.affine])
          [] OTHER -> properties

\* the statistics of lines 126-141
svc_weight_stats(weight_matrix) ==
    [avg_weight |-> np_mean_abs(weight_matrix),
     properties |-> [max_weight |-> np_max_abs(weight_matrix),
                     min_weight |-> np_min_abs(weight_matrix),
                     std_weight |-> np_std(weight_matrix),
                     shape |-> weight_matrix.shape]]

\* process_layer(layer, parent_id) on the closure state
\* st = [nodes, connections, node_id_counter, exc]; once an exception is
\* raised nothing further runs
RECURSIVE svc_process_layer(_, _, _)
RECURSIVE svc_process_children(_, _, _, _)
svc_process_layer(st, layer, parent_id) ==
    IF st.exc # NoExc THEN st
    ELSE
    LET layer_id == layer_id_of(st.node_id_counter)
        properties == svc_get_layer_properties(layer)
        st1 == [st EXCEPT
                  !.node_id_counter = st.node_id_counter + 1,
                  !.nodes = Append(st.nodes,
                                   NetworkNode(layer_id, properties.type, properties))]
    IN  IF parent_id # NoneId /\ hasattr(layer, "weight")
        THEN IF layer.attrs.weight = PyNone
             THEN [st1 EXCEPT !.exc =
                     [type |-> "AttributeError",
                      msg |-> "'NoneType' object has no attribute 'detach'"]]
             ELSE LET stats == svc_weight_stats(layer.attrs.weight)
                      st2 == [st1 EXCEPT !.connections =
                                Append(st1.connections,
                                       NetworkConnection(parent_id, layer_id,
                                                         stats.avg_weight,
                                                         stats.properties))]
                  IN  svc_process_children(st2, named_children(layer), 1, layer_id)
        ELSE svc_process_children(st1, named_children(layer), 1, layer_id)

\* the loop of lines 145-146, from child k on
svc_process_children(st, kids, k, layer_id) ==
    IF k > Len(kids) THEN st
    ELSE svc_process_children(svc_process_layer(st, kids[k].module, layer_id),
                              kids, k + 1, layer_id)

\* convert_pytorch_model(model): the network, or the exception raised
svc_convert_pytorch_model(m) ==
    LET st == svc_process_layer([nodes |-> <<>>, connections |-> <<>>,
                                 node_id_counter |-> 0, exc |-> NoExc],
                                m, NoneId)
    IN  IF st.exc # NoExc THEN Raised(st.exc)
        ELSE Ok(NeuroscopeNetwork("ANN", st.nodes, st.connections))

\* ------------------------------------------------------------------------
\* src/src/lib/bridge/pytorch_service.py
\* ------------------------------------------------------------------------
extract_layer_info(layer) ==
    LET info == [training |-> TRUE]
        c == layer.cls
        a == layer.attrs
    IN  CASE c = "LayerNorm" ->
               Update(info, [normalized_shape |-> a.normalized_shape,
                             eps |-> a.eps,
                             elementwise_affine |-> a.elementwise_affine])
          [] c = "Linear" ->
               Update(info, [in_features |-> a.in_features,
                             out_features |-> a.out_features,
                             bias |-> a.bias # PyNone])
          [] c = "ReLU" -> Update(info, [inplace |-> a.inplace])
          [] OTHER -> info

\* mutant: the counter is not advanced
add_node_stuck(st, layer, name) ==
    LET node_id == st.node_count
    IN  [st |-> [st EXCEPT
                   !.nodes = Append(st.nodes,
                                    [id |-> ToString(node_id),
                                     type |-> layer.cls,
                                     name |-> name,
                                     properties |-> extract_layer_info(layer)])],
         node_id |-> node_id]

\* add_node(layer, name) on the closure state st = [nodes, connections,
\* node_count]: the state after it and the id it returns
add_node(st, layer, name) ==
    LET node_id == st.node_count
    IN  [st |-> [st EXCEPT
                   !.node_count = st.node_count + 1,
                   !.nodes = Append(st.nodes,
                                    [id |-> ToString(node_id),
                                     type |-> layer.cls,
                                     name |-> name,
                                     properties |-> extract_layer_info(layer)])],
         node_id |-> node_id]

\* mutant: the target id is taken one position too far
lib_connection_shifted(source, target) ==
    [source |-> ToString(source), target |-> ToString(target + 1),
     weight |-> DefaultWeight]

lib_connection(source, target) ==
    [source |-> ToString(source), target |-> ToString(target), weight |-> DefaultWeight]

\* mutant: each pair is connected from the later id to the earlier
chain_backward(ids) ==
    [k \in 1..(IF Len(ids) = 0 THEN 0 ELSE Len(ids) - 1) |->
        lib_connection(ids[k + 1], ids[k])]

\* the connections chaining ids[1] -> ids[2] -> ... in order
chain(ids) ==
    [k \in 1..(IF Len(ids) = 0 THEN 0 ELSE Len(ids) - 1) |->
        lib_connection(ids[k], ids[k + 1])]

\* process_container(container, prefix): the state after it and the list
\* container_nodes it returns
RECURSIVE process_container(_, _, _)
RECURSIVE process_named_children(_, _, _, _, _)
process_container(st, container, prefix) ==
    LET r == process_named_children(st, named_children(container), 1, prefix, <<>>)
    IN  IF container.cls = "Sequential"
        THEN [r EXCEPT !.st.connections = r.st.connections \o chain(r.container_nodes)]
        ELSE r

\* the loop of lines 156-182, from child k on
process_named_children(st, kids, k, prefix, container_nodes) ==
    IF k > Len(kids) THEN [st |-> st, container_nodes |-> container_nodes]
    ELSE
    LET name == kids[k].name
        child == kids[k].module
        full_name == IF prefix # "" THEN prefix \o "." \o name ELSE name
    IN  IF child.cls \in {"Sequential", "ModuleList", "ModuleDict"}
        THEN LET r == process_container(st, child, full_name)
             IN  process_named_children(r.st, kids, k + 1, prefix,
                                        container_nodes \o r.container_nodes)
        ELSE
        LET added == add_node(st, child, full_name)
            node_id == added.node_id
        IN  IF Len(child.children) > 0
            THEN LET r == process_container(added.st, child, full_name)
                     child_nodes == r.container_nodes
                     st2 == IF child_nodes # <<>>
                            THEN [r.st EXCEPT !.connections =
                                    (r.st.connections
                                     \o <<lib_connection(node_id, child_nodes[1])>>)
                                    \o chain(child_nodes)]
                            ELSE r.st
                 IN  process_named_children(st2, kids, k + 1, prefix,
                                            Append(container_nodes, node_id))
            ELSE process_named_children(added.st, kids, k + 1, prefix,
                                        Append(container_nodes, node_id))

analyze_model(m) ==
    LET r == process_container([nodes |-> <<>>, connections |-> <<>>, node_count |-> 0],
                               m, "")
    IN  [type |-> "PyTorch", nodes |-> r.st.nodes, connections |-> r.st.connections]

\* ------------------------------------------------------------------------
\* Direct calls of the live converters
\* ------------------------------------------------------------------------
svc_convert ==
    /\ op = "svc_convert" /\ pc = "start"
    /\ hooks' = register_activation_hooks(hooks, model, "model")
    /\ response' = svc_convert_pytorch_model(model)
    /\ pc' = "done"
    /\ UNCHANGED <<op, model, runs, request, files, handles, loaded, locals, exc>>

lib_analyze ==
    /\ op = "lib_analyze" /\ pc = "start"
    /\ response' = Ok(analyze_model(model))
    /\ pc' = "done"
    /\ UNCHANGED <<op, model, hooks, runs, request, files, handles, loaded, locals, exc>>

\* ------------------------------------------------------------------------
\* Two converter invocations in flight at once (two threads, or two calls
\* one after the other).  Each invocation i has its own activation record
\* runs[i] = [op, model, name, pc, nodes, connections, counter, stack,
\* response]: the closure variables nodes, connections and the id counter
\* of the call, and the stack of process_layer / process_container calls
\* not yet finished.  One action is one call entered or one call returned.
\* ------------------------------------------------------------------------
\* the id of a layer that was given no node
NoNode == 0 - 1

MaxRunModules == 3

ModelsUpTo(n) == UNION {TreesOfSize(k) : k \in 1..n}

\* the models the second invocation is given
SecondModels ==
    {Container("Sequential", <<Container("Sequential",
                                 <<CHOOSE l \in LeafPool : l.obj = "fc",
                                   CHOOSE l \in LeafPool : l.obj = "act1">>)>>),
     Container("Net", <<CHOOSE l \in LeafPool : l.obj = "ln_affine",
                        Container("Net", <<CHOOSE l \in LeafPool : l.obj = "act2">>)>>)}

NewRun(o, m, n) ==
    [op |-> o, model |-> m, name |-> n, pc |-> "start",
     nodes |-> <<>>, connections |-> <<>>, counter |-> 0,
     stack |-> <<>>, response |-> NoResponse]

\* mutant: the counter is a module-level variable, which every invocation
\* advances
node_id_counter_global(rs, i) == rs[1].counter + rs[2].counter

\* the id counter invocation i reads: the nonlocal of its own call
node_id_counter(rs, i) == rs[i].counter

\* convert_pytorch_model / analyze_model entered: the locals are fresh, the
\* first call is on the model
run_begin(i) ==
    /\ i \in DOMAIN runs /\ runs[i].pc = "start"
    /\ IF runs[i].op = "svc_convert"
       THEN /\ hooks' = register_activation_hooks(hooks, runs[i].model, runs[i].name)
            /\ runs' = [runs EXCEPT ![i].pc = "run",
                          ![i].stack = <<[layer |-> runs[i].model,
                                          parent_id |-> NoneId]>>]
       ELSE /\ hooks' = hooks
            /\ runs' = [runs EXCEPT ![i].pc = "run",
                          ![i].stack = <<[container |-> runs[i].model, prefix |-> "",
                                          k |-> 1, container_nodes |-> <<>>,
                                          ret |-> "root", node_id |-> NoNode]>>]
    /\ UNCHANGED <<op, pc, model, request, files, handles, loaded, locals, exc, response>>

\* one call of process_layer(layer, parent_id), up to its loop over the
\* children, whose calls are stacked in order
svc_run_step(i) ==
    /\ i \in DOMAIN runs
    /\ runs[i].op = "svc_convert" /\ runs[i].pc = "run" /\ runs[i].stack # <<>>
    /\ LET r == runs[i]
           layer == Head(r.stack).layer
           parent_id == Head(r.stack).parent_id
           layer_id == layer_id_of(node_id_counter(runs, i))
           properties == svc_get_layer_properties(layer)
           r1 == [r EXCEPT
                    !.counter = r.counter + 1,
                    !.nodes = Append(r.nodes,
                                     NetworkNode(layer_id, properties.type, properties))]
           kids == named_children(layer)
           calls == [q \in 1..Len(kids) |->
                        [layer |-> kids[q].module, parent_id |-> layer_id]]
       IN  IF parent_id # NoneId /\ hasattr(layer, "weight")
           THEN IF layer.attrs.weight = PyNone
                THEN runs' = [runs EXCEPT ![i] =
                                [r1 EXCEPT
                                   !.pc = "done", !.stack = <<>>,
                                   !.response =
                                       Raised([type |-> "AttributeError",
                                               msg |-> "'NoneType' object has no attribute 'detach'"])]]
                ELSE LET stats == svc_weight_stats(layer.attrs.weight)
                     IN  runs' = [runs EXCEPT ![i] =
                                    [r1 EXCEPT
                                       !.connections =
                                           Append(r1.connections,
                                                  NetworkConnection(parent_id, layer_id,
                                                                    stats.avg_weight,
                                                                    stats.properties)),
                                       !.stack = calls \o Tail(r.stack)]]
           ELSE runs' = [runs EXCEPT ![i] = [r1 EXCEPT !.stack = calls \o Tail(r.stack)]]
    /\ UNCHANGED <<hooks, op, pc, model, request, files, handles, loaded, locals, exc,
                   response>>

\* process_layer(model) has returned: the network is built from the locals
svc_run_return(i) ==
    /\ i \in DOMAIN runs
    /\ runs[i].op = "svc_convert" /\ runs[i].pc = "run" /\ runs[i].stack = <<>>
    /\ runs' = [runs EXCEPT
                  ![i].pc = "done",
                  ![i].response = Ok(NeuroscopeNetwork("ANN", runs[i].nodes,
                                                       runs[i].connections))]
    /\ UNCHANGED <<hooks, op, pc, model, request, files, handles, loaded, locals, exc,
                   response>>

\* a call of process_container(container, prefix) in progress: k is the
\* child its loop is at, ret what its caller does with the returned list
\* ("extend" at line 161, "connect" at lines 168-182 for the node node_id,
\* "root" at line 196)
Frame(container, prefix, ret, node_id) ==
    [container |-> container, prefix |-> prefix, k |-> 1,
     container_nodes |-> <<>>, ret |-> ret, node_id |-> node_id]

\* one step of the running process_container call: the loop body for child
\* k up to the next call, or the end of the loop and the return
lib_run_step(i) ==
    /\ i \in DOMAIN runs
    /\ runs[i].op = "lib_analyze" /\ runs[i].pc = "run"
    /\ LET r == runs[i]
           f == Head(r.stack)
           rest == Tail(r.stack)
           kids == named_children(f.container)
       IN  IF f.k <= Len(kids)
           THEN LET name == kids[f.k].name
                    child == kids[f.k].module
                    full_name == IF f.prefix # "" THEN f.prefix \o "." \o name ELSE name
                IN  IF child.cls \in {"Sequential", "ModuleList", "ModuleDict"}
                    THEN runs' = [runs EXCEPT ![i].stack =
                                    <<Frame(child, full_name, "extend", NoNode)>> \o r.stack]
                    ELSE
                    LET added == add_node([nodes |-> r.nodes,
                                           connections |-> r.connections,
                                           node_count |-> node_id_counter(runs, i)],
                                          child, full_name)
                        node_id == added.node_id
                        r1 == [r EXCEPT !.counter = r.counter + 1,
                                        !.nodes = added.st.nodes]
                        f1 == [f EXCEPT !.container_nodes = Append(f.container_nodes, node_id)]
                    IN  IF Len(child.children) > 0
                        THEN runs' = [runs EXCEPT ![i] =
                                        [r1 EXCEPT !.stack =
                                            <<Frame(child, full_name, "connect", node_id), f1>>
                                            \o rest]]
                        ELSE runs' = [runs EXCEPT ![i] =
                                        [r1 EXCEPT !.stack =
                                            <<[f1 EXCEPT !.k = f.k + 1]>> \o rest]]
           ELSE
           LET child_nodes == f.container_nodes
               chained == IF f.container.cls = "Sequential"
                          THEN r.connections \o chain(child_nodes)
                          ELSE r.connections
               caller == Head(rest)
           IN  CASE f.ret = "root" ->
                      runs' = [runs EXCEPT ![i] =
                                 [r EXCEPT
                                    !.pc = "done", !.stack = <<>>,
                                    !.connections = chained,
                                    !.response = Ok([type |-> "PyTorch",
                                                     nodes |-> r.nodes,
                                                     connections |-> chained])]]
                 [] f.ret = "extend" ->
                      runs' = [runs EXCEPT ![i] =
                                 [r EXCEPT
                                    !.connections = chained,
                                    !.stack =
                                        <<[caller EXCEPT
                                             !.container_nodes =
                                                 caller.container_nodes \o child_nodes,
                                             !.k = caller.k + 1]>> \o Tail(rest)]]
                 [] f.ret = "connect" ->
                      runs' = [runs EXCEPT ![i] =
                                 [r EXCEPT
                                    !.connections =
                                        IF child_nodes # <<>>
                                        THEN (chained
                                              \o <<lib_connection(f.node_id, child_nodes[1])>>)
                                             \o chain(child_nodes)
                                        ELSE chained,
                                    !.stack = <<[caller EXCEPT !.k = caller.k + 1]>>
                                              \o Tail(rest)]]
    /\ UNCHANGED <<hooks, op, pc, model, request, files, handles, loaded, locals, exc,
                   response>>

\* ------------------------------------------------------------------------
\* Specification
\* ------------------------------------------------------------------------
ImportOps == {"py_import", "svc_import"}
LiveOps == {"svc_convert", "lib_analyze"}

Init ==
    /\ \/ /\ op \in ImportOps
          /\ weights_file \in Filenames
          /\ info_file \in Filenames
          /\ model = NoModel
          /\ hooks = NoHooks({})
       \/ /\ op \in LiveOps
          /\ weights_file = [stem |-> "", ext |-> ""]
          /\ info_file = [stem |-> "", ext |-> ""]
          /\ model \in ModelInputs
          /\ hooks = NoHooks(LeafModules(model, "model"))
    /\ runs = <<>>
    /\ pc = "start"
    /\ disk = {}
    /\ created = {}
    /\ temp_files = <<>>
    /\ weights_tmp = NoneId
    /\ info_tmp = NoneId
    /\ weights = PyNone
    /\ model_info = PyNone
    /\ nodes = <<>>
    /\ connections = <<>>
    /\ prev_layer_id = NoneId
    /\ idx = 0
    /\ exc = NoExc
    /\ response = NoResponse

Next ==
    \/ py_import_pytorch_model
    \/ svc_import_pytorch_model
    \/ svc_convert
    \/ lib_analyze

Spec == Init /\ [][Next]_vars

\* the two invocations: the first on any model of up to MaxRunModules
\* modules, the second on one of SecondModels
InitTwoRuns ==
    /\ op = "two_runs"
    /\ \E o1, o2 \in LiveOps :
         \E m1 \in ModelsUpTo(MaxRunModules), m2 \in SecondModels :
            /\ runs = <<NewRun(o1, m1, "run1"), NewRun(o2, m2, "run2")>>
            /\ hooks = NoHooks(LeafModules(m1, "run1") \cup LeafModules(m2, "run2"))
    /\ model = NoModel
    /\ weights_file = [stem |-> "", ext |-> ""]
    /\ info_file = [stem |-> "", ext |-> ""]
    /\ pc = "start"
    /\ disk = {}
    /\ created = {}
    /\ temp_files = <<>>
    /\ weights_tmp = NoneId
    /\ info_tmp = NoneId
    /\ weights = PyNone
    /\ model_info = PyNone
    /\ nodes = <<>>
    /\ connections = <<>>
    /\ prev_layer_id = NoneId
    /\ idx = 0
    /\ exc = NoExc
    /\ response = NoResponse

NextTwoRuns ==
    \E i \in 1..2 :
        \/ run_begin(i)
        \/ svc_run_step(i)
        \/ svc_run_return(i)
        \/ lib_run_step(i)

SpecTwoRuns == InitTwoRuns /\ [][NextTwoRuns]_vars

\* ------------------------------------------------------------------------
\* Vocabulary of the properties
\* ------------------------------------------------------------------------
Returned == response.kind = "network"
Net == response.body
DescriptorDriven == op \in ImportOps
HasLayers == isinstance_dict(model_info) /\ "layers" \in DOMAIN model_info.items
Layers == model_info.items.layers

NodeIds(n) == {n.nodes[k].id : k \in 1..Len(n.nodes)}

\* C1: in the network returned by any conversion, every connection's source
\* and target are ids of nodes of the returned node sequence.
C1_ReferentialIntegrity ==
    Returned =>
        \A k \in 1..Len(Net.connections) :
            /\ Net.connections[k].source \in NodeIds(Net)
            /\ Net.connections[k].target \in NodeIds(Net)

\* analyze_model returned a graph with nested containers and several edges
C1_Witness ==
    /\ op = "lib_analyze" /\ Returned
    /\ Len(Net.nodes) >= 3
    /\ Len(Net.connections) >= 2

\* the id the k-th node created (k from 0) has to carry
ExpectedId(k) == IF op = "lib_analyze" THEN ToString(k) ELSE "layer_" \o ToString(k)

IdsInCounterOrder(ns) ==
    /\ \A k \in 1..Len(ns) : ns[k].id \in STRING /\ ns[k].id = ExpectedId(k - 1)
    /\ \A j, k \in 1..Len(ns) : j # k => ns[j].id # ns[k].id

\* C2: node ids are strings, the k-th node created carries the id derived
\* from k, and no two nodes share an id; in the returned network of every
\* converter and in the node list a descriptor loop has built so far.
C2_LayerIdAssignment ==
    /\ Returned => IdsInCounterOrder(Net.nodes)
    /\ DescriptorDriven => IdsInCounterOrder(nodes)

\* the one Linear instance of the pool was visited at two places of the model
C2_Witness ==
    /\ op = "svc_convert" /\ Returned
    /\ \E j, k \in 1..Len(Net.nodes) :
          j < k /\ Net.nodes[j].type = "Linear" /\ Net.nodes[k].type = "Linear"

\* a descriptor entry the catalogue supports: its tag is in the catalogue and
\* it carries the fields its kind requires and, past the first position, the
\* name the weight lookup needs
Supported(e, pos) ==
    /\ "type" \in DOMAIN e
    /\ e.type \in SupportedTypes
    /\ \A k \in 1..Len(RequiredKeys(e.type)) : RequiredKeys(e.type)[k] \in DOMAIN e
    /\ pos > 1 => "name" \in DOMAIN e

Unsupported(e) == "type" \in DOMAIN e /\ e.type \notin SupportedTypes

LoopAborted == exc.type \in {"KeyError", "ValueError", "TypeError"}

IsLinearChain(n, N) ==
    /\ Len(n.nodes) = N
    /\ \A i \in 1..N : n.nodes[i].id = "layer_" \o ToString(i - 1)
    /\ Len(n.connections) = (IF N = 0 THEN 0 ELSE N - 1)
    /\ \A j \in 1..(N - 1) :
          /\ n.connections[j].source = "layer_" \o ToString(j - 1)
          /\ n.connections[j].target = "layer_" \o ToString(j)

\* C3: descriptor-driven conversion of N supported entries does not fail in
\* the converter, and the network it returns has exactly N nodes, node i with
\* id "layer_i", and exactly N-1 connections (none for N = 0), the j-th from
\* "layer_{j-1}" to "layer_j".
C3_LinearChain ==
    DescriptorDriven =>
        /\ Returned => IsLinearChain(Net, Len(Layers))
        /\ (HasLayers /\ \A pos \in 1..Len(Layers) : Supported(Layers[pos], pos))
              => ~LoopAborted
        /\ (pc = "done" /\ HasLayers /\ weights # PyNone /\ exc = NoExc
              /\ \A pos \in 1..Len(Layers) : Supported(Layers[pos], pos))
              => Returned

\* three supported entries were converted
C3_Witness ==
    /\ DescriptorDriven /\ Returned
    /\ Len(Layers) = 3
    /\ \A pos \in 1..3 : Supported(Layers[pos], pos)

ErrorPrefix == IF op = "py_import" THEN "Failed to load model: "
               ELSE "Failed to process model: "

\* C4: (the claim as stated) every descriptor-driven entry point fails as a
\* whole when some entry carries a tag outside the catalogue, and names the
\* tag when that entry is the first the converter cannot process.
C4_UnsupportedTagFails ==
    (DescriptorDriven /\ pc = "done" /\ HasLayers /\ weights # PyNone
       /\ exc.type \notin {"OSError", "HTTPException"}
       /\ \E pos \in 1..Len(Layers) : Unsupported(Layers[pos]))
    => /\ response.kind = "http_error"
       /\ \A pos \in 1..Len(Layers) :
             (Unsupported(Layers[pos])
                /\ \A q \in 1..(pos - 1) : Supported(Layers[q], q))
             => response.detail =
                   (ErrorPrefix \o "Unsupported layer type: ") \o Layers[pos].type

\* C5: when the converter aborts at an entry, the caller receives one error
\* response built from the exception alone; it carries no network, so nothing
\* of the nodes and connections built before the failure.
C5_NoPartialGraph ==
    (DescriptorDriven /\ pc = "done" /\ exc # NoExc)
    => /\ response.kind = "http_error"
       /\ response.status = 500
       /\ DOMAIN response = {"kind", "status", "detail"}
       /\ response.detail = ErrorPrefix \o exc.msg

\* the converter failed after it had built two nodes
C5_Witness ==
    /\ DescriptorDriven /\ pc = "done"
    /\ LoopAborted
    /\ Len(nodes) >= 2
    /\ response.kind = "http_error"

\* the tensor the weight mapping holds for the entry at pos, if any
HasWeight(pos) ==
    /\ "name" \in DOMAIN Layers[pos]
    /\ contains(weights, Layers[pos].name \o ".weight")
WeightOf(pos) == weights.items[Layers[pos].name \o ".weight"]

\* C6: (the claim as stated) an edge whose target entry has a weight tensor
\* has the mean absolute value of that tensor as its scalar weight.
C6_EdgeWeightIsMeanAbs ==
    (DescriptorDriven /\ Returned)
    => \A j \in 1..Len(Net.connections) :
          HasWeight(j + 1)
          => Net.connections[j].weight
                = Rat(SeqSum(AbsSeq(WeightOf(j + 1).data)), Len(WeightOf(j + 1).data))

\* C7: (the claim as stated) an edge whose target entry has a weight tensor
\* carries the statistics block of that tensor, with the tensor's shape.
C7_EdgeCarriesStatistics ==
    (DescriptorDriven /\ Returned)
    => \A j \in 1..Len(Net.connections) :
          HasWeight(j + 1)
          => /\ DOMAIN Net.connections[j].properties
                   = {"max_weight", "min_weight", "std_weight", "shape"}
             /\ Net.connections[j].properties.shape = WeightOf(j + 1).shape

IsDefaultEdge(c) == c.weight = [num |-> 1, den |-> 1] /\ DOMAIN c.properties = {}

\* C8: a weight lookup miss does not abort the conversion: the loop aborts
\* only at an entry that is not supported, it has created one edge per entry
\* after the first, and every edge whose target entry has no "<name>.weight"
\* key has weight exactly 1.0 and an empty property mapping.
C8_WeightMissIsNonFatal ==
    DescriptorDriven =>
        /\ \A j \in 1..Len(connections) :
              ("name" \in DOMAIN Layers[j + 1] /\ ~HasWeight(j + 1))
              => IsDefaultEdge(connections[j])
        /\ Returned =>
              \A j \in 1..Len(Net.connections) :
                 ~HasWeight(j + 1) => IsDefaultEdge(Net.connections[j])
        /\ pc \in {"py_convert", "svc_convert"}
              => Len(connections) = (IF idx = 0 THEN 0 ELSE idx - 1)
        /\ (pc \in {"py_except", "svc_except"} /\ LoopAborted /\ HasLayers)
              => ~Supported(Layers[idx + 1], idx + 1)

\* a conversion returned although an edge's target entry had no weight tensor
C8_Witness ==
    /\ DescriptorDriven /\ Returned
    /\ Len(Net.connections) >= 2
    /\ ~HasWeight(2)
    /\ HasWeight(3)

Malformed ==
    /\ model_info # PyNone
    /\ \/ ~HasLayers
       \/ \E pos \in 1..Len(Layers) : "type" \notin DOMAIN Layers[pos]

\* C9: a structure descriptor that is no mapping, has no "layers" key or
\* holds an entry without a type tag never yields a network: the import ends
\* with an error response.
C9_MalformedDescriptorIsFatal ==
    (DescriptorDriven /\ Malformed)
    => /\ ~Returned
       /\ pc = "done" => response.kind = "http_error"

\* an entry after the first lacked its type tag and the import failed on it
C9_Witness ==
    /\ DescriptorDriven /\ pc = "done"
    /\ HasLayers /\ Len(Layers) >= 2
    /\ "type" \in DOMAIN Layers[1]
    /\ "type" \notin DOMAIN Layers[2]
    /\ exc = KeyError("type")
    /\ response.kind = "http_error"

\* C10: (the claim as stated) when the import endpoint has returned or
\* raised, every temporary file the request created has been unlinked.
C10_TempFilesCleaned ==
    (DescriptorDriven /\ pc = "done") => created \cap disk = {}

\* ------------------------------------------------------------------------
\* Vocabulary of the live-traversal properties
\* ------------------------------------------------------------------------
LiveDone == op \in LiveOps /\ pc = "done"

\* the layers a traversal visits, the given layer first, then each registered
\* child's subtree in order
RECURSIVE VisitedLayers(_)
RECURSIVE VisitedFrom(_, _)
VisitedLayers(layer) == <<layer>> \o VisitedFrom(named_children(layer), 1)
VisitedFrom(kids, k) ==
    IF k > Len(kids) THEN <<>>
    ELSE VisitedLayers(kids[k].module) \o VisitedFrom(kids, k + 1)

\* the kinds python_service's get_layer_properties has a branch for
SvcRecognized ==
    {"Linear", "Conv2d", "MaxPool2d", "AvgPool2d", "ReLU", "LeakyReLU",
     "Dropout", "BatchNorm2d"}
CommonFields == {"type", "trainable_parameters", "has_bias"}

\* C11: (the claim as stated) converting a live model never fails, whatever
\* kinds its modules have and whether or not a module's weight attribute is
\* set: the conversion returns a network, and in it the node of a module of
\* an unrecognized kind has exactly the common property fields.
C11_LiveTraversalNeverFails ==
    (op = "svc_convert" /\ pc = "done") =>
        /\ Returned
        /\ Len(Net.nodes) = Len(VisitedLayers(model))
        /\ \A k \in 1..Len(Net.nodes) :
              Net.nodes[k].type \notin SvcRecognized =>
                  DOMAIN Net.nodes[k].properties = CommonFields

\* the kinds that can carry an additive bias
BiasKinds == {"Linear", "Conv1d", "Conv2d", "Conv3d", "RNN", "LSTM", "GRU"}

\* the operations whose nodes take their properties from a layer property
\* extractor
ExtractorOps == {"py_import", "svc_convert", "lib_analyze"}

\* C12: (the claim as stated) whichever extractor produced it, the property
\* mapping of a node contains the layer's type tag and its count of
\* trainable parameters, and a bias-presence flag when the kind can carry a
\* bias.
C12_ExtractorCommonFields ==
    (op \in ExtractorOps /\ pc = "done" /\ Returned) =>
        \A k \in 1..Len(Net.nodes) :
            LET node == Net.nodes[k]
                keys == DOMAIN node.properties
            IN  /\ "type" \in keys
                /\ node.properties.type = node.type
                /\ "trainable_parameters" \in keys
                /\ node.type \in BiasKinds =>
                       ("has_bias" \in keys \/ "bias" \in keys)

\* the part of C12 that holds: the two get_layer_properties variants
C12_GetLayerPropertiesCommonFields ==
    (op \in {"py_import", "svc_convert"} /\ pc = "done" /\ Returned) =>
        \A k \in 1..Len(Net.nodes) :
            LET node == Net.nodes[k]
                keys == DOMAIN node.properties
            IN  /\ {"type", "trainable_parameters"} \subseteq keys
                /\ node.properties.type = node.type
                /\ node.type \in BiasKinds => "has_bias" \in keys

DeclaresLinear(e) ==
    /\ {"type", "in_features", "out_features"} \subseteq DOMAIN e
    /\ e.type = "Linear"

VisitCount ==
    IF op = "svc_convert" THEN Len(VisitedLayers(model))
    ELSE Len(VisitedLayers(model)) - 1

\* C14: (the claim as stated) a live traversal emits every layer it visits,
\* leaf or container of any kind, as exactly one node: the number of nodes
\* is the number of layers visited.
C14_OneNodePerVisitedLayer ==
    (LiveDone /\ Returned) => Len(Net.nodes) = VisitCount

\* the part of C14 that holds: convert_pytorch_model, and analyze_model on
\* a model without Sequential, ModuleList or ModuleDict below its root
ListContainers == {"Sequential", "ModuleList", "ModuleDict"}
HasListContainerBelowRoot ==
    \E k \in 2..Len(VisitedLayers(model)) :
        VisitedLayers(model)[k].cls \in ListContainers
C14_OneNodePerEmittedLayer ==
    (LiveDone /\ Returned /\ (op = "lib_analyze" => ~HasListContainerBelowRoot))
        => Len(Net.nodes) = VisitCount

\* ------------------------------------------------------------------------
\* The edges spec'd for a live traversal, over the ids the traversals assign:
\* the counter value at which a layer is emitted.  "silent" is the set of
\* kinds a traversal visits without emitting a node; such a layer has
\* NoNode for an id.
\* ------------------------------------------------------------------------
RECURSIVE EmitCount(_, _)
RECURSIVE EmitCountFrom(_, _, _, _)
\* the nodes emitted for a layer and everything below it
EmitCount(layer, silent) ==
    (IF layer.cls \in silent THEN 0 ELSE 1)
    + EmitCountFrom(named_children(layer), 1, Len(named_children(layer)), silent)
\* ... for the children from..to of a container
EmitCountFrom(kids, from, to, silent) ==
    IF from > to THEN 0
    ELSE EmitCount(kids[from].module, silent) + EmitCountFrom(kids, from + 1, to, silent)

\* the edges of one container and of every container below it: "head" from
\* the container to its first child, "sibling" between consecutive
\* children.  self is the container's id, first the counter value when its
\* first child is visited, depth the container's distance from the model.
RECURSIVE SpecEdges(_, _, _, _, _)
SpecEdges(layer, self, first, depth, silent) ==
    LET kids == named_children(layer)
        n == Len(kids)
        counter(q) == first + EmitCountFrom(kids, 1, q - 1, silent)
        id(q) == IF kids[q].module.cls \in silent THEN NoNode ELSE counter(q)
        below(q) == IF kids[q].module.cls \in silent THEN counter(q)
                    ELSE counter(q) + 1
        head == IF n = 0 THEN {}
                ELSE {[container |-> layer.cls, depth |-> depth, kind |-> "head",
                       source |-> self, target |-> id(1)]}
        siblings == {[container |-> layer.cls, depth |-> depth, kind |-> "sibling",
                      source |-> id(q), target |-> id(q + 1)] : q \in 1..(n - 1)}
    IN  head \cup siblings
        \cup UNION {SpecEdges(kids[q].module, id(q), below(q), depth + 1, silent)
                       : q \in 1..n}

\* convert_pytorch_model emits the model as layer_0; analyze_model emits no
\* node for the model, whose head edge is therefore not asked for
LiveSpecEdges ==
    IF op = "svc_convert" THEN SpecEdges(model, 0, 1, 0, {})
    ELSE {e \in SpecEdges(model, NoNode, 0, 0, ListContainers) :
             ~(e.kind = "head" /\ e.depth = 0)}

LiveId(k) == IF op = "svc_convert" THEN layer_id_of(k) ELSE ToString(k)

HasEdge(e) ==
    \E j \in 1..Len(Net.connections) :
        /\ Net.connections[j].source = LiveId(e.source)
        /\ Net.connections[j].target = LiveId(e.target)

\* C15: (the claim as stated) after a live traversal the connection list
\* holds, for every container with a child, the edge from the container's
\* node to its first child's node, and for every two consecutive children
\* the edge from the earlier one's node to the later one's.
C15_ContainerAndSiblingEdges ==
    (LiveDone /\ Returned) => \A e \in LiveSpecEdges : HasEdge(e)

\* the part of C15 that holds: analyze_model on a Sequential model without
\* list containers below it, where the connections are exactly those edges
C15_SequentialRootEdges ==
    (op = "lib_analyze" /\ pc = "done" /\ model.cls = "Sequential"
       /\ ~HasListContainerBelowRoot) =>
        /\ \A e \in LiveSpecEdges : HasEdge(e)
        /\ \A j \in 1..Len(Net.connections) :
              \E e \in LiveSpecEdges :
                  /\ Net.connections[j].source = LiveId(e.source)
                  /\ Net.connections[j].target = LiveId(e.target)

\* the sibling edges of the Sequential containers of the model
SequentialChainEdges ==
    {e \in SpecEdges(model, NoNode, 0, 0, ListContainers) :
        e.kind = "sibling" /\ e.container = "Sequential"}

\* C16: (the claim as stated) after analyze_model, for every Sequential
\* container of the model with direct children c_1..c_n, leaves or nested
\* containers alike, the connection list holds the edge from the node of
\* c_i to the node of c_(i+1) for each i < n.
C16_SequentialChaining ==
    (op = "lib_analyze" /\ pc = "done") =>
        \A e \in SequentialChainEdges : HasEdge(e)

\* the part of C16 that holds: the chain between direct children that are
\* nodes, which are those not Sequential, ModuleList or ModuleDict
C16_SequentialChainingOfNodes ==
    (op = "lib_analyze" /\ pc = "done") =>
        \A e \in SequentialChainEdges :
            (e.source # NoNode /\ e.target # NoNode) => HasEdge(e)

EdgePair(c) == <<c.source, c.target>>

\* C17: (the claim as stated) the connection list of a live traversal holds
\* no two connections with the same ordered (source, target) pair.
C17_NoDuplicateEdges ==
    (LiveDone /\ Returned) =>
        \A i, j \in 1..Len(Net.connections) :
            EdgePair(Net.connections[i]) = EdgePair(Net.connections[j]) => i = j

\* the part of C17 that holds: convert_pytorch_model, and analyze_model on
\* a model without a Sequential below its root
HasSequentialBelowRoot ==
    \E k \in 2..Len(VisitedLayers(model)) :
        VisitedLayers(model)[k].cls = "Sequential"
C17_NoDuplicateEdgesWithoutNestedSequential ==
    (LiveDone /\ Returned /\ (op = "lib_analyze" => ~HasSequentialBelowRoot)) =>
        \A i, j \in 1..Len(Net.connections) :
            EdgePair(Net.connections[i]) = EdgePair(Net.connections[j]) => i = j

\* the pattern of NeuroscopeNetwork.type in src/src/python/models.py
NetworkTypes == {"ANN", "SNN", "Connectome"}

\* C18: (the claim as stated) every network a conversion entry point
\* returns has a type among "ANN", "SNN" and "Connectome".
C18_NetworkTypeEnumerated ==
    Returned => Net.type \in NetworkTypes

\* the part of C18 that holds: the entry points that build a
\* NeuroscopeNetwork
C18_NeuroscopeNetworkIsANN ==
    (Returned /\ op # "lib_analyze") => Net.type = "ANN"

\* w is the mean of the absolute values of the elements of tensor t
IsMeanAbsOf(w, t) ==
    w.num * Len(t.data) = w.den * SeqSum(AbsSeq(t.data))

NonNegativeWeight(c) ==
    /\ c.weight.den > 0
    /\ c.weight.num >= 0
    /\ \/ c.weight = DefaultWeight
       \/ \E t \in Tensors : IsMeanAbsOf(c.weight, t)

\* C19: the scalar weight of every connection, while a conversion builds
\* the list and in every returned network, is non-negative: it is the
\* default 1.0 or the mean of the absolute values of a weight tensor.
C19_WeightNonNegative ==
    /\ \A j \in 1..Len(connections) : NonNegativeWeight(connections[j])
    /\ Returned => \A j \in 1..Len(Net.connections) :
                       NonNegativeWeight(Net.connections[j])

\* a returned network with the edge of an all-negative tensor and the edge
\* of an all-zero tensor
C19_Witness ==
    /\ op = "svc_import" /\ Returned
    /\ \E i, j \in 1..Len(Net.connections) :
          /\ HasWeight(i + 1) /\ WeightOf(i + 1) = T_neg
          /\ Net.connections[i].weight = Rat(3, 1)
          /\ HasWeight(j + 1) /\ WeightOf(j + 1) = T_zero
          /\ Net.connections[j].weight = Rat(0, 1)

\* w is the largest magnitude among the elements of tensor t
IsMaxAbsOf(w, t) ==
    /\ w.den = 1
    /\ \A k \in 1..Len(t.data) : Abs(t.data[k]) <= w.num
    /\ \E k \in 1..Len(t.data) : Abs(t.data[k]) = w.num

\* the weight tensor behind connection j of a returned network
EdgeTensors(j) ==
    IF DescriptorDriven
    THEN {WeightOf(j + 1)}
    ELSE {VisitedLayers(model)[k].attrs.weight :
             k \in {i \in 1..Len(VisitedLayers(model)) :
                       Net.connections[j].target = layer_id_of(i - 1)}}

\* C20: (the claim as stated) wherever weight statistics are attached to an
\* edge, by the descriptor-driven conversion or by the live traversal, the
\* max_weight is the maximum absolute value of the tensor's elements.
C20_MaxWeightIsMaxAbs ==
    (op \in {"py_import", "svc_convert"} /\ Returned) =>
        \A j \in 1..Len(Net.connections) :
            "max_weight" \in DOMAIN Net.connections[j].properties =>
                \A t \in EdgeTensors(j) :
                    IsMaxAbsOf(Net.connections[j].properties.max_weight, t)

\* the part of C20 that holds: the live traversal of python_service
C20_LiveMaxWeightIsMaxAbs ==
    (op = "svc_convert" /\ Returned) =>
        \A j \in 1..Len(Net.connections) :
            /\ "max_weight" \in DOMAIN Net.connections[j].properties
            /\ EdgeTensors(j) # {}
            /\ \A t \in EdgeTensors(j) :
                  IsMaxAbsOf(Net.connections[j].properties.max_weight, t)

\* C22: (the claim as stated) no step of a conversion changes its input: a
\* loaded descriptor and a loaded weight mapping stay as loaded, and the
\* live model keeps its module tree, its attributes and the forward hooks
\* registered on its modules.
C22_InputUnchanged ==
    [][/\ model' = model
       /\ hooks' = hooks
       /\ model_info # PyNone => model_info' = model_info
       /\ weights # PyNone => weights' = weights]_vars

\* the part of C22 that holds: the descriptor, the weight mapping and the
\* module tree with its attributes; analyze_model registers no hook
C22_InputUnchangedButHooks ==
    [][/\ model' = model
       /\ op # "svc_convert" => hooks' = hooks
       /\ model_info # PyNone => model_info' = model_info
       /\ weights # PyNone => weights' = weights]_vars

\* what an invocation returns, or raises, when it is the only one
AloneResult(o, m) ==
    IF o = "svc_convert" THEN svc_convert_pytorch_model(m) ELSE Ok(analyze_model(m))

IsPrefix(a, b) == Len(a) <= Len(b) /\ \A k \in 1..Len(a) : a[k] = b[k]

\* C21: of two conversions on separate inputs, interleaved in any way, each
\* returns exactly what it returns when run alone, and while it runs its
\* node list is a prefix of that result's: its ids start from 0 and it
\* holds no node of the other conversion.
C21_ConversionsShareNoState ==
    \A i \in DOMAIN runs :
        LET alone == AloneResult(runs[i].op, runs[i].model)
        IN  /\ runs[i].pc = "done" => runs[i].response = alone
            /\ alone.kind = "network" => IsPrefix(runs[i].nodes, alone.body.nodes)

\* the second conversion has returned its network, ids from 0, while the
\* first is in the middle of its traversal, one node emitted and more to
\* come
C21_Witness ==
    /\ DOMAIN runs = 1..2
    /\ runs[1].pc = "run" /\ Len(runs[1].nodes) = 1 /\ runs[1].stack # <<>>
    /\ AloneResult(runs[1].op, runs[1].model).kind = "network"
    /\ Len(AloneResult(runs[1].op, runs[1].model).body.nodes) >= 2
    /\ runs[2].pc = "done" /\ runs[2].response.kind = "network"
    /\ Len(runs[2].response.body.nodes) >= 2
    /\ runs[2].response.body.nodes[1].id \in {"0", "layer_0"}

InfoLoaded == model_info # PyNone
WeightsLoaded == weights # PyNone
InvalidInfo == InfoLoaded /\ (~isinstance_dict(model_info) \/ ~HasLayers)
InvalidWeights == WeightsLoaded /\ ~isinstance_dict(weights)

\* C23: (the claim as stated) the python_service import endpoint answers a
\* descriptor that is not a dict or has no "layers" key with status 400 and
\* detail "Invalid model info file format", a weights payload that is not a
\* dict with status 400 and detail "Invalid weights file format", and
\* answers 500 only to other failures.
C23_ValidationErrorsAre400 ==
    (op = "svc_import" /\ pc = "done") =>
        /\ InvalidInfo => response = HTTPException(400, "Invalid model info file format")
        /\ InvalidWeights => response = HTTPException(400, "Invalid weights file format")
        /\ (response.kind = "http_error" /\ response.status = 500)
               => ~InvalidInfo /\ ~InvalidWeights

\* the request's file names do not carry the extensions the endpoint
\* accepts: .pt or .pth, and for python_service's descriptor .pt only
RejectedFilenames ==
    \/ weights_file.ext \notin {".pt", ".pth"}
    \/ op = "py_import" /\ info_file.ext \notin {".pt", ".pth"}
    \/ op = "svc_import" /\ info_file.ext # ".pt"

\* C24: a request with a file name of a wrong extension never creates a
\* temporary file and never reads or loads an upload, and it ends with
\* status 400: it goes from the start to the rejection in one step.
C24_FilenameCheckedFirst ==
    (DescriptorDriven /\ RejectedFilenames) =>
        /\ pc \in {"start", "done"}
        /\ created = {} /\ disk = {}
        /\ temp_files = <<>> /\ weights_tmp = NoneId /\ info_tmp = NoneId
        /\ weights = PyNone /\ model_info = PyNone
        /\ pc = "done" => (response.kind = "http_error" /\ response.status = 400)

\* python_service has rejected a descriptor named .pth after accepting the
\* weights file name
C24_Witness ==
    /\ op = "svc_import" /\ pc = "done"
    /\ weights_file.ext = ".pth" /\ info_file.ext = ".pth"
    /\ response.kind = "http_error" /\ response.status = 400
    /\ created = {} /\ weights = PyNone /\ model_info = PyNone

\* the (parent, layer) pairs, as counter values, of the visited layers that
\* are not the root and have a weight attribute, in visiting order
RECURSIVE WeightEdges(_, _, _)
RECURSIVE WeightEdgesFrom(_, _, _, _)
WeightEdges(layer, self, parent) ==
    (IF parent # NoNode /\ hasattr(layer, "weight") THEN <<<<parent, self>>>> ELSE <<>>)
    \o WeightEdgesFrom(named_children(layer), 1, self + 1, self)
WeightEdgesFrom(kids, q, next, parent) ==
    IF q > Len(kids) THEN <<>>
    ELSE WeightEdges(kids[q].module, next, parent)
         \o WeightEdgesFrom(kids, q + 1, next + EmitCount(kids[q].module, {}), parent)

ConnectsWeightEdges(cs, m) ==
    LET expected == WeightEdges(m, 0, NoNode)
    IN  /\ Len(cs) = Len(expected)
        /\ \A j \in 1..Len(cs) :
              /\ cs[j].source = layer_id_of(expected[j][1])
              /\ cs[j].target = layer_id_of(expected[j][2])

\* C25: (the claim as stated) python_service's convert_pytorch_model
\* creates a connection for a visited layer exactly when the layer is not
\* the root and has a weight attribute, from its parent's node to its own:
\* the connections of the conversion are those of these layers.
C25_EdgeIffNonRootWithWeight ==
    (op = "svc_convert" /\ pc = "done") =>
        /\ Returned
        /\ ConnectsWeightEdges(Net.connections, model)

\* the part of C25 that holds: whenever the conversion returns a network
C25_EdgeIffNonRootWithWeightWhenReturned ==
    (op = "svc_convert" /\ pc = "done" /\ Returned) =>
        ConnectsWeightEdges(Net.connections, model)

\* the id given at counter value k by the converter that is running
IdAt(k) == IF op = "lib_analyze" THEN ToString(k) ELSE layer_id_of(k)

\* connection c goes from a node of ns to one created later
PointsForward(c, ns) ==
    \E a, b \in 0..(Len(ns) - 1) :
        /\ a < b
        /\ ns[a + 1].id = IdAt(a) /\ c.source = IdAt(a)
        /\ ns[b + 1].id = IdAt(b) /\ c.target = IdAt(b)

\* C26: in the network of every converter, and in the lists a
\* descriptor-driven conversion is building, every connection goes from a
\* node to a node created later: the source's counter value is smaller
\* than the target's, so no connection is a self-loop or closes a cycle.
C26_EdgesPointForward ==
    /\ \A j \in 1..Len(connections) : PointsForward(connections[j], nodes)
    /\ Returned =>
           \A j \in 1..Len(Net.connections) :
               PointsForward(Net.connections[j], Net.nodes)

\* analyze_model has returned a head edge into a nested container and the
\* chain edge past it
C26_Witness ==
    /\ op = "lib_analyze" /\ Returned
    /\ model.cls = "Sequential"
    /\ Len(Net.nodes) = 3
    /\ \E i, j \in 1..Len(Net.connections) :
          /\ Net.connections[i].source = "0" /\ Net.connections[i].target = "1"
          /\ Net.connections[j].source = "0" /\ Net.connections[j].target = "2"

\* an entry the endpoint can make a node of
Convertible(e) ==
    /\ "type" \in DOMAIN e
    /\ op = "py_import" =>
          /\ e.type \in SupportedTypes
          /\ \A k \in 1..Len(RequiredKeys(e.type)) : RequiredKeys(e.type)[k] \in DOMAIN e

\* connection c carries what is computed from the tensor keyed by the name
\* of entry pos, or the defaults when there is no such tensor
UsesTensorOfEntry(c, pos) ==
    IF ~HasWeight(pos) THEN IsDefaultEdge(c)
    ELSE IF op = "svc_import" THEN IsMeanAbsOf(c.weight, WeightOf(pos))
    ELSE /\ "shape" \in DOMAIN c.properties
         /\ c.properties.shape = WeightOf(pos).shape
         /\ c.properties.min_weight = Rat(SeqMin(WeightOf(pos).data), 1)

\* C27: in descriptor-driven conversion the edge into entry i carries the
\* tensor keyed by entry i's name, not its source's; a missing name on an
\* entry after the first fails the conversion, and a descriptor of
\* convertible entries with names on all but possibly the first converts.
C27_WeightKeyedByTargetName ==
    DescriptorDriven =>
        /\ Returned =>
              \A j \in 1..Len(Net.connections) :
                  /\ "name" \in DOMAIN Layers[j + 1]
                  /\ UsesTensorOfEntry(Net.connections[j], j + 1)
        /\ (pc = "done" /\ HasLayers
              /\ (\E pos \in 2..Len(Layers) : "name" \notin DOMAIN Layers[pos]))
              => response.kind = "http_error"
        /\ (pc = "done" /\ HasLayers /\ isinstance_dict(weights)
              /\ (\A pos \in 1..Len(Layers) : Convertible(Layers[pos]))
              /\ (\A pos \in 2..Len(Layers) : "name" \in DOMAIN Layers[pos]))
              => Returned /\ Len(Net.nodes) = Len(Layers)

\* a descriptor whose first entry has no name was converted, and its two
\* edges carry the different tensors of their own targets
C27_Witness ==
    /\ DescriptorDriven /\ Returned
    /\ Len(Layers) = 3 /\ Len(Net.connections) = 2
    /\ "name" \notin DOMAIN Layers[1]
    /\ HasWeight(2) /\ HasWeight(3) /\ WeightOf(2) # WeightOf(3)
    /\ UsesTensorOfEntry(Net.connections[2], 3)
    /\ ~UsesTensorOfEntry(Net.connections[2], 2)

====
